---- MODULE Spec2Model ----
(***************************************************************************)
(* A model of go2ts (src/go2ts.go): the registry of TypeScript type        *)
(* declarations kept by a Go2TS instance, the registration operations      *)
(* Add* / AddUnion*, the recursive translation of a Go type to a           *)
(* TypeScript type, and Render.                                            *)
(*                                                                         *)
(* Go strings that the code inspects (names, json tags) are sequences of   *)
(* one-character strings, so that strings.Split, strings.Title,            *)
(* ast.IsExported and fmt.Sprintf are computed and not assumed.            *)
(***************************************************************************)
EXTENDS Integers, Sequences, FiniteSets, TLC

(***************************************************************************)
(* Bounds of the model.                                                    *)
(***************************************************************************)
\* number of registration calls (Add*, AddUnion*) made on one instance
MaxCalls == 2
\* depth of nested Go calls the goroutine stack can hold before the runtime
\* ends the process with a stack overflow
MaxDepth == 14

(***************************************************************************)
(* Strings.                                                                *)
(***************************************************************************)
LowerCase == <<"a","b","c","d","e","f","g","h","i","j","k","l","m",
               "n","o","p","q","r","s","t","u","v","w","x","y","z">>
UpperCase == <<"A","B","C","D","E","F","G","H","I","J","K","L","M",
               "N","O","P","Q","R","S","T","U","V","W","X","Y","Z">>
DecimalDigits == <<"0","1","2","3","4","5","6","7","8","9">>

Range(s) == {s[i] : i \in DOMAIN s}

\* unicode.ToUpper on one character
ToUpper(c) ==
  IF \E i \in DOMAIN LowerCase : LowerCase[i] = c
  THEN UpperCase[CHOOSE i \in DOMAIN LowerCase : LowerCase[i] = c]
  ELSE c

\* strings.Title on an identifier (a single word): its first letter in upper case
Title(s) == IF s = <<>> THEN s ELSE <<ToUpper(s[1])>> \o Tail(s)

\* ast.IsExported: the name begins with an upper-case letter
IsExported(name) == name # <<>> /\ name[1] \in Range(UpperCase)

\* fmt.Sprintf("%d", n)
RECURSIVE FormatNat(_)
FormatNat(n) ==
  IF n < 10 THEN <<DecimalDigits[n + 1]>>
  ELSE FormatNat(n \div 10) \o <<DecimalDigits[(n % 10) + 1]>>

FormatInt(n) == IF n < 0 THEN <<"-">> \o FormatNat(0 - n) ELSE FormatNat(n)

\* strings.Split(s, ","): the pieces of s between commas, at least one piece
RECURSIVE SplitFrom(_, _, _)
SplitFrom(s, i, cur) ==
  IF i > Len(s) THEN <<cur>>
  ELSE IF s[i] = "," THEN <<cur>> \o SplitFrom(s, i + 1, <<>>)
  ELSE SplitFrom(s, i + 1, Append(cur, s[i]))

Split(s) == SplitFrom(s, 1, <<>>)

Anonymous == <<"A","n","o","n","y","m","o","u","s">>
Omitempty == <<"o","m","i","t","e","m","p","t","y">>

(***************************************************************************)
(* Go types, as reflect describes them.  A type is named by an identifier  *)
(* of the model (a string); Types gives its reflect.Type: Kind(), Name(),  *)
(* PkgPath(), Elem(), Key() and the struct fields with their tags.         *)
(***************************************************************************)
Basic(kind, name) ==
  [Kind |-> kind, Name |-> name, PkgPath |-> "", Elem |-> "", Key |-> "", Fields |-> <<>>]
Named(kind, name, key, elem) ==
  [Kind |-> kind, Name |-> name, PkgPath |-> "main", Elem |-> elem, Key |-> key, Fields |-> <<>>]
Composite(kind, key, elem) ==
  [Kind |-> kind, Name |-> <<>>, PkgPath |-> "", Elem |-> elem, Key |-> key, Fields |-> <<>>]
Struct(name, pkg, fields) ==
  [Kind |-> "struct", Name |-> name, PkgPath |-> pkg, Elem |-> "", Key |-> "", Fields |-> fields]

\* a reflect.StructField; json and go2ts are Tag.Get("json") and Tag.Get("go2ts")
Field(name, type) ==
  [Name |-> name, Type |-> type, Anonymous |-> FALSE, json |-> <<>>, go2ts |-> ""]
Tagged(name, type, json) ==
  [Name |-> name, Type |-> type, Anonymous |-> FALSE, json |-> json, go2ts |-> ""]
IgnoreNil(name, type) ==
  [Name |-> name, Type |-> type, Anonymous |-> FALSE, json |-> <<>>, go2ts |-> "ignorenil"]
Embedded(name, type) ==
  [Name |-> name, Type |-> type, Anonymous |-> TRUE, json |-> <<>>, go2ts |-> ""]

Types ==
  [ int            |-> Basic("int", <<"i","n","t">>),
    string         |-> Basic("string", <<"s","t","r","i","n","g">>),
    bool           |-> Basic("bool", <<"b","o","o","l">>),
    uintptr        |-> Basic("uintptr", <<"u","i","n","t","p","t","r">>),
    complex128     |-> Basic("complex128", <<"c","o","m","p","l","e","x","1","2","8">>),
    iface          |-> Composite("interface", "", ""),
    chanInt        |-> Composite("chan", "", "int"),
    func           |-> Composite("func", "", ""),
    unsafePointer  |-> [Kind |-> "unsafe.Pointer", Name |-> <<"P","o","i","n","t","e","r">>,
                        PkgPath |-> "unsafe", Elem |-> "", Key |-> "", Fields |-> <<>>],
    \* time.Time: a struct with unexported fields only
    Time           |-> Struct(<<"T","i","m","e">>, "time",
                         <<Field(<<"w","a","l","l">>, "int"), Field(<<"e","x","t">>, "int")>>),
    \* type Opt int; type Mode string; type Data map[string]interface{}; type Foo []string
    Opt            |-> Named("int", <<"O","p","t">>, "", ""),
    Mode           |-> Named("string", <<"M","o","d","e">>, "", ""),
    Data           |-> Named("map", <<"D","a","t","a">>, "string", "iface"),
    Foo            |-> Named("slice", <<"F","o","o">>, "", "string"),
    Bar            |-> Named("slice", <<"B","a","r">>, "", "ptrString"),
    \* unnamed composite types
    sliceString    |-> Composite("slice", "", "string"),
    sliceSlice     |-> Composite("slice", "", "sliceString"),
    array3String   |-> Composite("array", "", "string"),
    arraySlice     |-> Composite("array", "", "sliceString"),
    ptrString      |-> Composite("ptr", "", "string"),
    ptrPtrString   |-> Composite("ptr", "", "ptrString"),
    ptrSlice       |-> Composite("ptr", "", "sliceString"),
    ptrArray       |-> Composite("ptr", "", "array3String"),
    mapSlice       |-> Composite("map", "string", "sliceString"),
    mapPtr         |-> Composite("map", "int", "ptrSome"),
    mapOptKey      |-> Composite("map", "Opt", "string"),
    mapModeKey     |-> Composite("map", "Mode", "string"),
    mapBoolKey     |-> Composite("map", "bool", "string"),
    sliceComplex   |-> Composite("slice", "", "complex128"),
    sliceOpt       |-> Composite("slice", "", "Opt"),
    array2Opt      |-> Composite("array", "", "Opt"),
    sliceMode      |-> Composite("slice", "", "Mode"),
    sliceBool      |-> Composite("slice", "", "bool"),
    sliceData      |-> Composite("slice", "", "Data"),
    sliceSome      |-> Composite("slice", "", "Some"),
    ptrData        |-> Composite("ptr", "", "Data"),
    ptrSome        |-> Composite("ptr", "", "Some"),
    ptrPtrSome     |-> Composite("ptr", "", "ptrSome"),
    \* type Some struct { B string }
    Some           |-> Struct(<<"S","o","m","e">>, "main", <<Field(<<"B">>, "string")>>),
    \* type Holder struct { Choices Opt }
    Holder         |-> Struct(<<"H","o","l","d","e","r">>, "main", <<Field(<<"C">>, "Opt")>>),
    \* type Other struct { T time.Time `json:"t,omitempty"`; skipped bool; N string `json:"-"` }
    Other          |-> Struct(<<"O","t","h","e","r">>, "main",
                         <<Tagged(<<"T">>, "Time", <<"t", ",">> \o Omitempty),
                           Field(<<"s","k">>, "bool"),
                           Tagged(<<"N">>, "string", <<"-">>)>>),
    \* type lower struct { I struct{ A int }; J struct{ B bool }; K struct{ A int } }
    anonA          |-> Struct(<<>>, "", <<Field(<<"A">>, "int")>>),
    anonB          |-> Struct(<<>>, "", <<Field(<<"B">>, "bool")>>),
    lower          |-> Struct(<<"l","o","w","e","r">>, "main",
                         <<Field(<<"I">>, "anonA"), Field(<<"J">>, "anonB"),
                           Field(<<"K">>, "anonA")>>),
    \* type Nullables struct { ... }: pointers, slices, arrays and maps, with and
    \* without the go2ts:"ignorenil" tag
    Nullables      |-> Struct(<<"N","u","l">>, "main",
                         <<Field(<<"P">>, "ptrPtrString"),
                           Field(<<"S">>, "sliceSlice"),
                           Field(<<"A">>, "arraySlice"),
                           Field(<<"M">>, "mapSlice"),
                           Field(<<"Q">>, "ptrSlice"),
                           Field(<<"R">>, "mapPtr"),
                           Field(<<"F">>, "Foo"),
                           IgnoreNil(<<"G">>, "ptrSlice"),
                           IgnoreNil(<<"H">>, "mapSlice"),
                           IgnoreNil(<<"B">>, "Bar"),
                           IgnoreNil(<<"O">>, "ptrSome")>>),
    \* type Inner struct { X int; Y string `json:",omitempty"` }
    Inner          |-> Struct(<<"I","n">>, "main",
                         <<Field(<<"X">>, "int"), Tagged(<<"Y">>, "string", <<",">> \o Omitempty)>>),
    ptrInner       |-> Composite("ptr", "", "Inner"),
    \* type Inner2 struct { X bool }
    Inner2         |-> Struct(<<"I","2">>, "main", <<Field(<<"X">>, "bool")>>),
    \* type Deep struct { *Inner; Z bool }
    Deep           |-> Struct(<<"D","e","e","p">>, "main",
                         <<Embedded(<<"I","n">>, "ptrInner"), Field(<<"Z">>, "bool")>>),
    \* type Mid struct { Deep; V int `json:"v,omitempty"` }
    Mid            |-> Struct(<<"M","i","d">>, "main",
                         <<Embedded(<<"D","e","e","p">>, "Deep"),
                           Tagged(<<"V">>, "int", <<"v", ",">> \o Omitempty)>>),
    ptrMid         |-> Composite("ptr", "", "Mid"),
    \* type Outer struct { A int; *Mid; W string `json:"w"` }
    Outer          |-> Struct(<<"O","u","t">>, "main",
                         <<Field(<<"A">>, "int"), Embedded(<<"M","i","d">>, "ptrMid"),
                           Tagged(<<"W">>, "string", <<"w">>)>>),
    \* type Flat struct { K Mode; Inner; Opt; L int }: a direct embedding, and an
    \* embedded field that is not a struct
    Flat           |-> Struct(<<"F","l","a","t">>, "main",
                         <<Field(<<"K">>, "Mode"), Embedded(<<"I","n">>, "Inner"),
                           Embedded(<<"O","p","t">>, "Opt"), Field(<<"L">>, "int")>>),
    \* type hidden struct { E int }; type Shy struct { hidden; F int }
    hidden         |-> Struct(<<"h","i","d">>, "main", <<Field(<<"E">>, "int")>>),
    Shy            |-> Struct(<<"S","h","y">>, "main",
                         <<Embedded(<<"h","i","d">>, "hidden"), Field(<<"F">>, "int")>>),
    \* colliding property names
    \* type Clash2 struct { H Holder; Inner; Inner2 }
    Clash2         |-> Struct(<<"C","2">>, "main",
                         <<Field(<<"H">>, "Holder"), Embedded(<<"I","n">>, "Inner"),
                           Embedded(<<"I","2">>, "Inner2")>>),
    \* type ClashOuter struct { X int; Inner }
    ClashOuter     |-> Struct(<<"C","O">>, "main",
                         <<Field(<<"X">>, "int"), Embedded(<<"I","n">>, "Inner")>>),
    \* type ClashTag struct { P int `json:"n"`; Q int `json:"n,omitempty"` }
    ClashTag       |-> Struct(<<"C","T">>, "main",
                         <<Tagged(<<"P">>, "int", <<"n">>),
                           Tagged(<<"Q">>, "int", <<"n", ",">> \o Omitempty)>>),
    \* kinds with no JSON form
    \* type HasComplex struct { S Some; C complex128 }
    HasComplex     |-> Struct(<<"H","C">>, "main",
                         <<Field(<<"S">>, "Some"), Field(<<"C">>, "complex128")>>),
    HasChan        |-> Struct(<<"H","c","h">>, "main", <<Field(<<"C">>, "chanInt")>>),
    HasFunc        |-> Struct(<<"H","F">>, "main", <<Field(<<"F">>, "func")>>),
    HasUnsafe      |-> Struct(<<"H","U">>, "main", <<Field(<<"U">>, "unsafePointer")>>),
    HasUintptr     |-> Struct(<<"H","P">>, "main", <<Field(<<"U">>, "uintptr")>>),
    HasDeepComplex |-> Struct(<<"H","D">>, "main", <<Field(<<"S">>, "sliceComplex")>>),
    HasBoolKey     |-> Struct(<<"H","K">>, "main", <<Field(<<"M">>, "mapBoolKey")>>),
    \* cyclic type graphs
    \* type Node struct { V int; Next *Node }
    Node           |-> Struct(<<"N","o","d","e">>, "main",
                         <<Field(<<"V">>, "int"), Field(<<"N">>, "ptrNode")>>),
    ptrNode        |-> Composite("ptr", "", "Node"),
    \* type Tree struct { Kids []Tree }
    Tree           |-> Struct(<<"T","r","e","e">>, "main", <<Field(<<"K">>, "sliceTree")>>),
    sliceTree      |-> Composite("slice", "", "Tree"),
    \* type Graph struct { Edges map[string]Graph }
    Graph          |-> Struct(<<"G","r">>, "main", <<Field(<<"E">>, "mapGraph")>>),
    mapGraph       |-> Composite("map", "string", "Graph"),
    \* type ChainA struct { B ChainB }; type ChainB struct { A *ChainA }
    ChainA         |-> Struct(<<"C","A">>, "main", <<Field(<<"B">>, "ChainB")>>),
    ChainB         |-> Struct(<<"C","B">>, "main", <<Field(<<"A">>, "ptrChainA")>>),
    ptrChainA      |-> Composite("ptr", "", "ChainA"),
    \* type Leaf struct { P *string; S []string }
    Leaf           |-> Struct(<<"L","e","a","f">>, "main",
                         <<Field(<<"P">>, "ptrString"), Field(<<"S">>, "sliceString")>>),
    ptrLeaf        |-> Composite("ptr", "", "Leaf"),
    \* type Quiet struct { F Foo `go2ts:"ignorenil"`; L *Leaf `go2ts:"ignorenil"` }
    Quiet          |-> Struct(<<"Q","u","i","e","t">>, "main",
                         <<IgnoreNil(<<"F">>, "Foo"), IgnoreNil(<<"L">>, "ptrLeaf")>>),
    \* type Keyed struct { O map[Opt]string; M map[Mode]string; S map[string][]string;
    \*                     R map[int]*Some }
    Keyed          |-> Struct(<<"K","e","y","e","d">>, "main",
                         <<Field(<<"O">>, "mapOptKey"), Field(<<"M">>, "mapModeKey"),
                           Field(<<"S">>, "mapSlice"), Field(<<"R">>, "mapPtr")>>)
  ]

TypeIds == DOMAIN Types

Kind(t) == Types[t].Kind
Name(t) == Types[t].Name
PkgPath(t) == Types[t].PkgPath
Elem(t) == Types[t].Elem
Key(t) == Types[t].Key
NumField(t) == Len(Types[t].Fields)
StructField(t, i) == Types[t].Fields[i]

\* reflect.Kind.String()
KindString(k) ==
  CASE k = "int" -> <<"i","n","t">>
    [] k = "string" -> <<"s","t","r","i","n","g">>
    [] k = "bool" -> <<"b","o","o","l">>
    [] k = "uintptr" -> <<"u","i","n","t","p","t","r">>
    [] k = "complex128" -> <<"c","o","m","p","l","e","x","1","2","8">>
    [] OTHER -> <<k>>

(***************************************************************************)
(* TypeScript types and declarations (package typescript).                 *)
(***************************************************************************)
Number == [tag |-> "basic", name |-> "number"]
String == [tag |-> "basic", name |-> "string"]
Boolean == [tag |-> "basic", name |-> "boolean"]
AnyType == [tag |-> "basic", name |-> "any"]
Null == [tag |-> "basic", name |-> "null"]
\* the nil typescript.Type (a Go interface value that holds nothing)
NilType == [tag |-> "nil"]

ArrayType(items) == [tag |-> "array", ItemsType |-> items]
MapType(index, value) == [tag |-> "map", IndexType |-> index, ValueType |-> value]
UnionType(types) == [tag |-> "union", Types |-> types]
LiteralType(basic, literal) == [tag |-> "literal", BasicType |-> basic, Literal |-> literal]

InterfaceDeclaration(namespace, identifier, properties) ==
  [decl |-> "interface", Namespace |-> namespace, Identifier |-> identifier,
   Properties |-> properties]
TypeAliasDeclaration(namespace, identifier, type) ==
  [decl |-> "alias", Namespace |-> namespace, Identifier |-> identifier, Type |-> type]
PropertySignature(identifier, type, optional) ==
  [Identifier |-> identifier, Type |-> type, Optional |-> optional]

\* TypeDeclaration.TypeReference(): a reference to the declaration's name
TypeReference(declaration) == [tag |-> "ref", to |-> declaration.Identifier]

(***************************************************************************)
(* The Go2TS instance.  Declarations are objects addressed by pointer:     *)
(* declarations[p] is the object at pointer p, typeDeclarations maps a Go  *)
(* type to a pointer and typeDeclarationsInOrder lists pointers.           *)
(***************************************************************************)
New ==
  [typeDeclarations |-> <<>>, typeDeclarationsInOrder |-> <<>>,
   declarations |-> <<>>, anonymousCount |-> 0]

\* g.typeDeclarations[t], the declaration object a registered type maps to
Lookup(g, t) == g.declarations[g.typeDeclarations[t]]

\* a declaration put at the front of the list
PrependTypeDeclaration(order, p) == <<p>> \o order

\* append(g.typeDeclarationsInOrder, typeDeclaration)
AppendTypeDeclaration(order, p) == Append(order, p)

\* a declaration saved in the map and not put on the list
getOrSaveTypeDeclarationUnlisted(g, reflectType, typeDeclaration) ==
  IF reflectType \in DOMAIN g.typeDeclarations
  THEN [g |-> g, decl |-> Lookup(g, reflectType)]
  ELSE LET p == Len(g.declarations) + 1
       IN [g |-> [g EXCEPT
                    !.declarations = Append(@, typeDeclaration),
                    !.typeDeclarations = (reflectType :> p) @@ @],
           decl |-> typeDeclaration]

getOrSaveTypeDeclaration(g, reflectType, typeDeclaration) ==
  IF reflectType \in DOMAIN g.typeDeclarations
  THEN [g |-> g, decl |-> Lookup(g, reflectType)]
  ELSE LET p == Len(g.declarations) + 1
       IN [g |-> [g EXCEPT
                    !.declarations = Append(@, typeDeclaration),
                    !.typeDeclarations = (reflectType :> p) @@ @,
                    !.typeDeclarationsInOrder = AppendTypeDeclaration(@, p)],
           decl |-> typeDeclaration]

numberKinds ==
  {"int", "int8", "int16", "int32", "int64", "uint", "uint8", "uint16", "uint32",
   "uint64", "float32", "float64"}

isNumber(kind) == kind \in numberKinds

nonNumberPrimitiveKinds == {"bool", "uintptr", "string"}

isPrimitive(kind) == kind \in numberKinds \/ kind \in nonNumberPrimitiveKinds

isPrimitiveAlias(t) == isPrimitive(Kind(t)) /\ Name(t) # KindString(Kind(t))

isTime(t) == Name(t) = <<"T","i","m","e">> /\ PkgPath(t) = "time"

RECURSIVE removeIndirection(_)
removeIndirection(t) == IF Kind(t) = "ptr" THEN removeIndirection(Elem(t)) ELSE t

(***************************************************************************)
(* The translation.  Each function takes the instance g and returns the    *)
(* instance it leaves behind with its result; st is "ok" when it returns,  *)
(* "panic" when it panics (why names the panic) and "overflow" when the    *)
(* nesting of calls d exceeds the stack.  A panic or an overflow unwinds   *)
(* every caller and keeps what was stored in g up to that point.           *)
(***************************************************************************)
Returned(g, ts) == [g |-> g, ts |-> ts, st |-> "ok", why |-> ""]
Panicked(g, why) == [g |-> g, ts |-> NilType, st |-> "panic", why |-> why]
Overflowed(g) == [g |-> g, ts |-> NilType, st |-> "overflow", why |-> "stack"]

getAnonymousInterfaceName(g) ==
  [g |-> [g EXCEPT !.anonymousCount = @ + 1],
   name |-> Anonymous \o FormatInt(g.anonymousCount + 1)]

\* the json tag's name, or the field's name
PropertyName(structField) ==
  LET jsonTag == Split(structField.json)
  IN IF Len(jsonTag) > 0 /\ jsonTag[1] # <<>> THEN jsonTag[1] ELSE structField.Name

MarkedAsOptional(structField) ==
  LET jsonTag == Split(structField.json)
  IN Len(jsonTag) > 1 /\ jsonTag[2] = Omitempty

IsEmbeddedStruct(structField) ==
  structField.Anonymous /\ Kind(removeIndirection(structField.Type)) = "struct"

\* the flag of the embedding alone, without the flag inherited from outside
ForceOptionalNotInherited(recursivelyForceOptional, structField) ==
  Kind(structField.Type) = "ptr"

\* the recursivelyForceOptional argument of the call for an embedded struct
ForceOptional(recursivelyForceOptional, structField) ==
  recursivelyForceOptional \/ Kind(structField.Type) = "ptr"

\* a comparison with the last property only
HasPropertyLast(interfaceDeclaration, propertyName) ==
  /\ interfaceDeclaration.Properties # <<>>
  /\ interfaceDeclaration.Properties[Len(interfaceDeclaration.Properties)].Identifier
       = propertyName

\* the loop over interfaceDeclaration.Properties that looks for propertyName
HasProperty(interfaceDeclaration, propertyName) ==
  \E i \in DOMAIN interfaceDeclaration.Properties :
    interfaceDeclaration.Properties[i].Identifier = propertyName

\* a collection that is nullable whether it is a slice or an array
CollectionTypeNullableArray(kind, items, ignoreNil) ==
  IF ~ignoreNil THEN UnionType(<<ArrayType(items), Null>>) ELSE ArrayType(items)

\* the TypeScript type of an array or a slice with the given items
CollectionType(kind, items, ignoreNil) ==
  IF kind = "slice" /\ ~ignoreNil
  THEN UnionType(<<ArrayType(items), Null>>)
  ELSE ArrayType(items)

\* the TypeScript type of a pointer to a type translated to tsType
PointerType(tsType, ignoreNil) ==
  IF ignoreNil THEN tsType ELSE UnionType(<<tsType, Null>>)

\* the switch on the Kind of a type that is not a map, a slice or an array
ScalarType(kind) ==
  CASE isNumber(kind) -> Number
    [] kind = "string" -> String
    [] kind = "bool" -> Boolean
    [] kind = "struct" -> String
    [] kind = "interface" -> AnyType
    [] OTHER -> NilType

\* an index type that is a number whatever the key
IndexTypeNumber(keyKind) == Number

\* the TypeScript index type of a map whose key is of a string or number kind
IndexType(keyKind) == IF keyKind = "string" THEN String ELSE Number

UnserializableKinds == {"complex64", "complex128", "chan", "func", "unsafe.Pointer"}

\* whether a named type gets a type alias declaration of its own
DeclaresAlias(t, wasExplicitlyAdded) ==
  /\ ~wasExplicitlyAdded
  /\ Name(t) # <<>>
  /\ (~isPrimitive(Kind(t)) \/ isPrimitiveAlias(t))
  /\ ~isTime(t)

RECURSIVE reflectTypeToTypeScriptType(_, _, _, _, _, _)
RECURSIVE populateInterfaceDeclarationProperties(_, _, _, _, _, _)
RECURSIVE addInterfaceDeclaration(_, _, _, _, _)

\* the end of reflectTypeToTypeScriptType: the alias of a named type, or tsType
FinishType(g, t, namespace, wasExplicitlyAdded, tsType) ==
  IF DeclaresAlias(t, wasExplicitlyAdded)
  THEN LET Reference(saved) == Returned(saved.g, TypeReference(saved.decl))
       IN Reference(getOrSaveTypeDeclaration(g, t,
                      TypeAliasDeclaration(namespace, Name(t), tsType)))
  ELSE Returned(g, tsType)

reflectTypeToTypeScriptType(g, t, namespace, wasExplicitlyAdded, ignoreNil, d) ==
  IF d > MaxDepth THEN Overflowed(g)
  ELSE IF Kind(t) = "ptr" THEN
    LET Pointer(r) ==
          IF r.st # "ok" THEN r ELSE Returned(r.g, PointerType(r.ts, ignoreNil))
    IN Pointer(reflectTypeToTypeScriptType(g, removeIndirection(t), namespace,
                                           wasExplicitlyAdded, ignoreNil, d + 1))
  ELSE IF t \in DOMAIN g.typeDeclarations THEN
    Returned(g, TypeReference(Lookup(g, t)))
  ELSE IF Kind(t) = "struct" /\ ~isTime(t) THEN
    LET Interface(r) ==
          IF r.st # "ok" THEN [g |-> r.g, ts |-> NilType, st |-> r.st, why |-> r.why]
          ELSE Returned(r.g, TypeReference(r.decl))
    IN Interface(addInterfaceDeclaration(g, t, <<>>, namespace, d + 1))
  ELSE IF Kind(t) = "map" THEN
    IF Kind(Key(t)) # "string" /\ ~isNumber(Kind(Key(t)))
    THEN Panicked(g, "index")
    ELSE LET indexType == IndexType(Kind(Key(t)))
             Map(r) ==
               IF r.st # "ok" THEN r
               ELSE FinishType(r.g, t, namespace, wasExplicitlyAdded,
                               MapType(indexType, r.ts))
         IN Map(reflectTypeToTypeScriptType(g, Elem(t), namespace, FALSE, ignoreNil, d + 1))
  ELSE IF Kind(t) \in {"slice", "array"} THEN
    LET Collection(r) ==
          IF r.st # "ok" THEN r
          ELSE FinishType(r.g, t, namespace, wasExplicitlyAdded,
                          CollectionType(Kind(t), r.ts, ignoreNil))
    IN Collection(reflectTypeToTypeScriptType(g, Elem(t), namespace, FALSE, ignoreNil, d + 1))
  ELSE IF Kind(t) \in UnserializableKinds THEN Panicked(g, "unsupported")
  ELSE FinishType(g, t, namespace, wasExplicitlyAdded, ScalarType(Kind(t)))

\* the loop over the fields of structType, from field i on
populateInterfaceDeclarationProperties(g, interfaceDeclaration, structType, recursivelyForceOptional, i, d) ==
  IF d > MaxDepth THEN [g |-> g, decl |-> interfaceDeclaration, st |-> "overflow", why |-> "stack"]
  ELSE IF i > NumField(structType)
  THEN [g |-> g, decl |-> interfaceDeclaration, st |-> "ok", why |-> ""]
  ELSE
    LET Skip == populateInterfaceDeclarationProperties(g, interfaceDeclaration, structType,
                                                       recursivelyForceOptional, i + 1, d)
        \* the fields of an embedded struct were added: on to the next field
        Embed(r) ==
          IF r.st # "ok" THEN r
          ELSE populateInterfaceDeclarationProperties(r.g, r.decl, structType,
                                                      recursivelyForceOptional, i + 1, d)
        \* the type of the field was translated: its property is appended
        Property(r, propertyName, optional) ==
          IF r.st # "ok"
          THEN [g |-> r.g, decl |-> interfaceDeclaration, st |-> r.st, why |-> r.why]
          ELSE populateInterfaceDeclarationProperties(r.g,
                 [interfaceDeclaration EXCEPT !.Properties =
                    Append(@, PropertySignature(propertyName, r.ts, optional))],
                 structType, recursivelyForceOptional, i + 1, d)
        Loop(structField, propertyName) ==
          IF ~IsExported(structField.Name) THEN Skip
          ELSE IF IsEmbeddedStruct(structField)
          THEN Embed(populateInterfaceDeclarationProperties(g, interfaceDeclaration,
                       removeIndirection(structField.Type),
                       ForceOptional(recursivelyForceOptional, structField), 1, d + 1))
          ELSE IF propertyName = <<"-">> THEN Skip
          ELSE IF HasProperty(interfaceDeclaration, propertyName)
          THEN [g |-> g, decl |-> interfaceDeclaration, st |-> "panic", why |-> "collision"]
          ELSE Property(reflectTypeToTypeScriptType(g, structField.Type,
                          interfaceDeclaration.Namespace, FALSE,
                          structField.go2ts = "ignorenil", d + 1),
                        propertyName,
                        recursivelyForceOptional \/ MarkedAsOptional(structField))
        OfField(structField) == Loop(structField, PropertyName(structField))
    IN OfField(StructField(structType, i))

addInterfaceDeclaration(g, t, name, namespace, d) ==
  LET noDecl == InterfaceDeclaration(namespace, name, <<>>)
      \* g.typeDeclarations[structType] = ret, appended to the list in order
      Register(r, structType, p) ==
        [g |-> [r.g EXCEPT
                  !.declarations = Append(@, r.decl),
                  !.typeDeclarations = (structType :> p) @@ @,
                  !.typeDeclarationsInOrder = AppendTypeDeclaration(@, p)],
         decl |-> r.decl, st |-> "ok", why |-> ""]
      Populated(r, structType) ==
        IF r.st # "ok" THEN r ELSE Register(r, structType, Len(r.g.declarations) + 1)
      Anonymously(anon, structType) ==
        Populated(populateInterfaceDeclarationProperties(anon.g,
                    InterfaceDeclaration(namespace, anon.name, <<>>),
                    structType, FALSE, 1, d + 1), structType)
      WithName(interfaceName, structType) ==
        IF interfaceName = <<>>
        THEN Anonymously(getAnonymousInterfaceName(g), structType)
        ELSE Populated(populateInterfaceDeclarationProperties(g,
                         InterfaceDeclaration(namespace, interfaceName, <<>>),
                         structType, FALSE, 1, d + 1), structType)
      Declare(structType) ==
        IF Kind(structType) # "struct"
        THEN [g |-> g, decl |-> noDecl, st |-> "panic", why |-> "notstruct"]
        ELSE IF structType \in DOMAIN g.typeDeclarations
        THEN IF Lookup(g, structType).decl = "interface"
             THEN [g |-> g, decl |-> Lookup(g, structType), st |-> "ok", why |-> ""]
             \* the type assertion to *typescript.InterfaceDeclaration fails
             ELSE [g |-> g, decl |-> noDecl, st |-> "panic", why |-> "assertion"]
        ELSE WithName(IF name = <<>> THEN Title(Name(structType)) ELSE name, structType)
  IN IF d > MaxDepth THEN [g |-> g, decl |-> noDecl, st |-> "overflow", why |-> "stack"]
     ELSE Declare(removeIndirection(t))

addTypeDeclaration(g, t, typeName, namespace) ==
  IF Kind(removeIndirection(t)) = "struct"
  THEN LET Interface(r) == [g |-> r.g, st |-> r.st, why |-> r.why]
       IN Interface(addInterfaceDeclaration(g, t, typeName, namespace, 1))
  ELSE IF t \in DOMAIN g.typeDeclarations
  THEN [g |-> g, st |-> "ok", why |-> ""]
  ELSE LET name == IF typeName = <<>> THEN Name(t) ELSE typeName
           Alias(r) ==
             IF r.st # "ok" THEN [g |-> r.g, st |-> r.st, why |-> r.why]
             ELSE [g |-> getOrSaveTypeDeclaration(r.g, t,
                           TypeAliasDeclaration(namespace, name, r.ts)).g,
                   st |-> "ok", why |-> ""]
       IN Alias(reflectTypeToTypeScriptType(g, t, namespace, TRUE, FALSE, 1))

(***************************************************************************)
(* Literal unions.                                                         *)
(***************************************************************************)
\* fmt.Sprintf("%v", value) for a value of a basic kind
FormatValue(kind, value) ==
  IF kind = "bool" THEN (IF value THEN <<"t","r","u","e">> ELSE <<"f","a","l","s","e">>)
  ELSE IF isNumber(kind) THEN FormatInt(value)
  ELSE value

BasicTypeOf(kind) ==
  IF kind = "bool" THEN Boolean ELSE IF isNumber(kind) THEN Number ELSE String

\* the loop over the elements of the slice or array, from element i on; every
\* element of a slice or array has the Kind of the element type
RECURSIVE UnionLiterals(_, _, _)
UnionLiterals(v, i, types) ==
  LET Literal(kind) ==
        IF kind # "bool" /\ ~isNumber(kind) /\ kind # "string"
        THEN [types |-> types, st |-> "error"]
        ELSE UnionLiterals(v, i + 1,
               Append(types, LiteralType(BasicTypeOf(kind), FormatValue(kind, v.Elems[i]))))
  IN IF i > Len(v.Elems) THEN [types |-> types, st |-> "ok"]
     ELSE Literal(Kind(Elem(v.Type)))

UnionTypeName(v, typeName) == IF typeName = <<>> THEN Name(Elem(v.Type)) ELSE typeName

\* an update that leaves the type of the alias as it was
RetrofitKeepsType(declaration, namespace, typeName, unionType) ==
  [declaration EXCEPT !.Namespace = namespace, !.Identifier = typeName]

\* the update of an existing type alias declaration
Retrofit(declaration, namespace, typeName, unionType) ==
  [declaration EXCEPT !.Namespace = namespace, !.Identifier = typeName, !.Type = unionType]

\* a variant that stores the union before it looks at the declaration it replaces
addUnionStoresFirst(g, v, typeName, namespace) ==
  IF Kind(v.Type) # "slice" /\ Kind(v.Type) # "array"
  THEN [g |-> g, st |-> "error", why |-> "notslice"]
  ELSE
    LET Store(elem, alias) ==
          IF elem \in DOMAIN g.typeDeclarations
          THEN [g |-> [g EXCEPT !.declarations[g.typeDeclarations[elem]] = alias],
                st |-> IF Lookup(g, elem).decl # "alias" THEN "error" ELSE "ok",
                why |-> IF Lookup(g, elem).decl # "alias" THEN "conflict" ELSE ""]
          ELSE [g |-> getOrSaveTypeDeclaration(g, elem, alias).g, st |-> "ok", why |-> ""]
        Union(literals) ==
          IF literals.st # "ok" THEN [g |-> g, st |-> "error", why |-> "kind"]
          ELSE Store(Elem(v.Type),
                     TypeAliasDeclaration(namespace, UnionTypeName(v, typeName),
                                          UnionType(literals.types)))
    IN Union(UnionLiterals(v, 1, <<>>))

addUnion(g, v, typeName, namespace) ==
  IF Kind(v.Type) # "slice" /\ Kind(v.Type) # "array"
  THEN [g |-> g, st |-> "error", why |-> "notslice"]
  ELSE
    LET Store(elem, name, unionType) ==
          IF elem \in DOMAIN g.typeDeclarations
          THEN IF Lookup(g, elem).decl # "alias"
               THEN [g |-> g, st |-> "error", why |-> "conflict"]
               ELSE [g |-> [g EXCEPT !.declarations[g.typeDeclarations[elem]] =
                                       Retrofit(@, namespace, name, unionType)],
                     st |-> "ok", why |-> ""]
          ELSE [g |-> getOrSaveTypeDeclaration(g, elem,
                        TypeAliasDeclaration(namespace, name, unionType)).g,
                st |-> "ok", why |-> ""]
        Union(literals) ==
          IF literals.st # "ok" THEN [g |-> g, st |-> "error", why |-> "kind"]
          ELSE Store(Elem(v.Type), UnionTypeName(v, typeName), UnionType(literals.types))
    IN Union(UnionLiterals(v, 1, <<>>))

(***************************************************************************)
(* Render.  The text of a declaration is a sequence of pieces, each a      *)
(* character or a fixed piece of syntax.                                   *)
(***************************************************************************)
HeaderLine == <<"// DO NOT EDIT. This file is automatically generated.", "\n">>
BlankLine == <<"\n">>

RECURSIVE Join(_, _)
Join(texts, sep) ==
  IF texts = <<>> THEN <<>>
  ELSE IF Len(texts) = 1 THEN texts[1]
  ELSE texts[1] \o sep \o Join(Tail(texts), sep)

RECURSIVE TypeToTypeScript(_)
TypeToTypeScript(type) ==
  CASE type.tag = "basic" -> <<type.name>>
    [] type.tag = "ref" -> type.to
    [] type.tag = "literal" ->
         IF type.BasicType = String THEN <<"\"">> \o type.Literal \o <<"\"">>
         ELSE type.Literal
    [] type.tag = "array" ->
         IF type.ItemsType.tag = "union"
         THEN <<"(">> \o TypeToTypeScript(type.ItemsType) \o <<")", "[]">>
         ELSE TypeToTypeScript(type.ItemsType) \o <<"[]">>
    [] type.tag = "map" ->
         <<"{ [key: ">> \o TypeToTypeScript(type.IndexType) \o <<"]: ">>
           \o TypeToTypeScript(type.ValueType) \o <<" }">>
    [] type.tag = "union" ->
         Join([i \in DOMAIN type.Types |-> TypeToTypeScript(type.Types[i])], <<" | ">>)

PropertyToTypeScript(property) ==
  <<"\t">> \o property.Identifier \o (IF property.Optional THEN <<"?">> ELSE <<>>)
    \o <<": ">> \o TypeToTypeScript(property.Type) \o <<";", "\n">>

DeclarationBody(declaration) ==
  IF declaration.decl = "interface"
  THEN <<"export interface ">> \o declaration.Identifier \o <<" {", "\n">>
         \o Join([i \in DOMAIN declaration.Properties |->
                    PropertyToTypeScript(declaration.Properties[i])], <<>>)
         \o <<"}">>
  ELSE <<"export type ">> \o declaration.Identifier \o <<" = ">>
         \o TypeToTypeScript(declaration.Type) \o <<";">>

\* TypeDeclaration.ToTypeScript()
ToTypeScript(declaration) ==
  IF declaration.Namespace = "" THEN DeclarationBody(declaration)
  ELSE <<"export namespace ", declaration.Namespace, " { ">>
         \o DeclarationBody(declaration) \o <<" }">>

\* whether a TypeScript type holds the nil typescript.Type, on which a method
\* call panics
RECURSIVE HasNilType(_)
HasNilType(type) ==
  CASE type.tag = "nil" -> TRUE
    [] type.tag = "array" -> HasNilType(type.ItemsType)
    [] type.tag = "map" -> HasNilType(type.ValueType)
    [] type.tag = "union" -> \E i \in DOMAIN type.Types : HasNilType(type.Types[i])
    [] OTHER -> FALSE

DeclarationHasNilType(declaration) ==
  IF declaration.decl = "interface"
  THEN \E i \in DOMAIN declaration.Properties : HasNilType(declaration.Properties[i].Type)
  ELSE HasNilType(declaration.Type)

\* fmt.Fprintln(w, text): the write numbered failAt fails, the others succeed;
\* from is the pointer of the declaration written, 0 for another line
Fprintln(written, text, from, failAt) ==
  Append(written, [text |-> text, from |-> from, ok |-> Len(written) + 1 # failAt])

\* one loop of Render over typeDeclarationsInOrder, from position i on
RECURSIVE RenderLoop(_, _, _, _, _)
RenderLoop(g, interfaces, i, written, failAt) ==
  IF i > Len(g.typeDeclarationsInOrder) THEN [written |-> written, st |-> "ok"]
  ELSE LET Write(p, declaration) ==
             IF (declaration.decl = "interface") # interfaces
             THEN RenderLoop(g, interfaces, i + 1, written, failAt)
             ELSE IF DeclarationHasNilType(declaration)
             THEN [written |-> Fprintln(written, BlankLine, 0, failAt), st |-> "panic"]
             ELSE RenderLoop(g, interfaces, i + 1,
                    Fprintln(Fprintln(written, BlankLine, 0, failAt),
                             ToTypeScript(declaration) \o <<"\n">>, p, failAt),
                    failAt)
       IN Write(g.typeDeclarationsInOrder[i], g.declarations[g.typeDeclarationsInOrder[i]])

render(g, failAt) ==
  LET Aliases(first) ==
        IF first.st # "ok" THEN first
        ELSE RenderLoop(g, FALSE, 1, first.written, failAt)
      Interfaces(header) ==
        IF ~header[1].ok THEN [written |-> header, st |-> "error"]
        ELSE Aliases(RenderLoop(g, TRUE, 1, header, failAt))
  IN Interfaces(Fprintln(<<>>, HeaderLine, 0, failAt))

(***************************************************************************)
(* The state: one Go2TS instance, the calls made on it, and what Render    *)
(* wrote last.                                                             *)
(***************************************************************************)
VARIABLES
  typeDeclarations,         \* g.typeDeclarations: Go type -> pointer of its declaration
  typeDeclarationsInOrder,  \* g.typeDeclarationsInOrder: pointers, in the order added
  declarations,             \* the declaration objects, by pointer
  anonymousCount,           \* g.anonymousCount
  calls,                    \* the number of registration calls made
  last,                     \* the last call: its arguments and how it ended
  written                   \* the writes of the last Render

vars == <<typeDeclarations, typeDeclarationsInOrder, declarations, anonymousCount,
          calls, last, written>>

registry == <<typeDeclarations, typeDeclarationsInOrder, declarations, anonymousCount>>

\* the Go2TS instance g
G ==
  [typeDeclarations |-> typeDeclarations,
   typeDeclarationsInOrder |-> typeDeclarationsInOrder,
   declarations |-> declarations, anonymousCount |-> anonymousCount]

Becomes(g) ==
  /\ typeDeclarations' = g.typeDeclarations
  /\ typeDeclarationsInOrder' = g.typeDeclarationsInOrder
  /\ declarations' = g.declarations
  /\ anonymousCount' = g.anonymousCount

NoValue == [Form |-> "none", Type |-> "", Elems |-> <<>>]

Call(op, v, name, namespace, result, why) ==
  [op |-> op, v |-> v, name |-> name, namespace |-> namespace,
   result |-> result, why |-> why]

\* a stack overflow ends the process
Running == last.result # "overflow"

Init ==
  /\ typeDeclarations = New.typeDeclarations
  /\ typeDeclarationsInOrder = New.typeDeclarationsInOrder
  /\ declarations = New.declarations
  /\ anonymousCount = New.anonymousCount
  /\ calls = 0
  /\ last = Call("New", NoValue, <<>>, "", "nil", "")
  /\ written = <<>>

(***************************************************************************)
(* The operations.                                                         *)
(***************************************************************************)
\* A value passed to Add*: a Go value of type Type (Form "value"), the
\* reflect.Type of Type (Form "Type") or a reflect.Value of type Type
\* (Form "Value").
Value(form, type) == [Form |-> form, Type |-> type, Elems |-> <<>>]
\* A value passed to AddUnion*: a Go value of type Type; Elems are its elements
\* when it is a slice or an array.
Values(type, elems) == [Form |-> "value", Type |-> type, Elems |-> elems]

\* the type switch of AddWithNameToNamespace
ReflectTypeOf(v) ==
  CASE v.Form = "Type" -> v.Type
    [] v.Form = "Value" -> v.Type
    [] OTHER -> v.Type

\* The loops of the batch forms, from value i on.  A value that fails ends the
\* loop: an error is returned, a panic unwinds it.
(* The loops of the batch forms, from value i on.  A value that fails ends *)
(* the loop: an error is returned, a panic unwinds it.                     *)
(***************************************************************************)
RECURSIVE addMultiple(_, _, _, _)
addMultiple(g, values, namespace, i) ==
  IF i > Len(values) THEN [g |-> g, st |-> "ok", why |-> ""]
  ELSE LET Added(r) ==
             IF r.st # "ok" THEN r ELSE addMultiple(r.g, values, namespace, i + 1)
       IN Added(addTypeDeclaration(g, ReflectTypeOf(values[i]), <<>>, namespace))

\* a loop that goes on to the next value after an error and returns the error
\* at its end
RECURSIVE addMultipleUnionKeepsGoing(_, _, _, _)
addMultipleUnionKeepsGoing(g, values, namespace, i) ==
  IF i > Len(values) THEN [g |-> g, st |-> "ok", why |-> ""]
  ELSE LET Rest(r, rest) ==
             IF r.st # "ok" THEN [g |-> rest.g, st |-> r.st, why |-> r.why] ELSE rest
           Added(r) ==
             Rest(r, addMultipleUnionKeepsGoing(r.g, values, namespace, i + 1))
       IN Added(addUnion(g, values[i], <<>>, namespace))

RECURSIVE addMultipleUnion(_, _, _, _)
addMultipleUnion(g, values, namespace, i) ==
  IF i > Len(values) THEN [g |-> g, st |-> "ok", why |-> ""]
  ELSE LET Added(r) ==
             IF r.st # "ok" THEN r ELSE addMultipleUnion(r.g, values, namespace, i + 1)
       IN Added(addUnion(g, values[i], <<>>, namespace))

\* Add, AddToNamespace and AddWithName call it with "" for the missing arguments.
\* It returns nil unless addTypeDeclaration panics.
AddWithNameToNamespace(v, interfaceName, namespace) ==
  /\ Running
  /\ calls < MaxCalls
  /\ LET Ends(r) ==
           /\ Becomes(r.g)
           /\ last' = Call("Add", v, interfaceName, namespace,
                           IF r.st = "ok" THEN "nil" ELSE r.st, r.why)
     IN Ends(addTypeDeclaration(G, ReflectTypeOf(v), interfaceName, namespace))
  /\ calls' = calls + 1
  /\ UNCHANGED written

\* AddUnion, AddUnionToNamespace and AddUnionWithName call it with "" for the
\* missing arguments.
AddUnionWithNameToNamespace(v, typeName, namespace) ==
  /\ Running
  /\ calls < MaxCalls
  /\ LET Ends(r) ==
           /\ Becomes(r.g)
           /\ last' = Call("AddUnion", v, typeName, namespace,
                           IF r.st = "ok" THEN "nil" ELSE r.st, r.why)
     IN Ends(addUnion(G, v, typeName, namespace))
  /\ calls' = calls + 1
  /\ UNCHANGED written

\* a Render that takes the declarations off the ordered list as it writes them
RenderDrains(failAt) ==
  /\ Running
  /\ LET Ends(r) ==
           /\ written' = r.written
           /\ last' = Call("Render", NoValue, <<>>, "",
                           IF r.st = "ok" THEN "nil" ELSE r.st, "")
     IN Ends(render(G, failAt))
  /\ typeDeclarationsInOrder' = <<>>
  /\ UNCHANGED <<typeDeclarations, declarations, anonymousCount, calls>>

\* Render to a writer whose write number failAt fails (0: none fails)
Render(failAt) ==
  /\ Running
  /\ LET Ends(r) ==
           /\ written' = r.written
           /\ last' = Call("Render", NoValue, <<>>, "",
                           IF r.st = "ok" THEN "nil" ELSE r.st, "")
     IN Ends(render(G, failAt))
  /\ UNCHANGED <<registry, calls>>

\* AddMultiple calls it with "" for the namespace.  It returns nil unless a value
\* panics.
AddMultipleToNamespace(namespace, values) ==
  /\ Running
  /\ calls < MaxCalls
  /\ LET Ends(r) ==
           /\ Becomes(r.g)
           /\ last' = Call("AddMultiple", values, <<>>, namespace,
                           IF r.st = "ok" THEN "nil" ELSE r.st, r.why)
     IN Ends(addMultiple(G, values, namespace, 1))
  /\ calls' = calls + 1
  /\ UNCHANGED written

\* AddMultipleUnion calls it with "" for the namespace.
AddMultipleUnionToNamespace(namespace, values) ==
  /\ Running
  /\ calls < MaxCalls
  /\ LET Ends(r) ==
           /\ Becomes(r.g)
           /\ last' = Call("AddMultipleUnion", values, <<>>, namespace,
                           IF r.st = "ok" THEN "nil" ELSE r.st, r.why)
     IN Ends(addMultipleUnion(G, values, namespace, 1))
  /\ calls' = calls + 1
  /\ UNCHANGED written

\* the writes a writer may fail at
FailAt == {0, 1, 3}

Arg(v, name, namespace) == [v |-> v, name |-> name, namespace |-> namespace]

(***************************************************************************)
(* Spec: the registry under registrations of a few types in all the ways   *)
(* a type can be passed, and under literal unions.                         *)
(***************************************************************************)
AddInputs ==
  << Arg(Value("value", "Some"), <<>>, ""),
     Arg(Value("Type", "Some"), <<>>, ""),
     Arg(Value("value", "ptrSome"), <<>>, ""),
     Arg(Value("Value", "ptrSome"), <<>>, "ns"),
     Arg(Value("value", "Some"), <<"N">>, ""),
     Arg(Value("value", "Data"), <<>>, ""),
     Arg(Value("Type", "Data"), <<"N">>, "ns"),
     Arg(Value("value", "ptrData"), <<>>, ""),
     Arg(Value("value", "Holder"), <<>>, ""),
     Arg(Value("value", "Holder"), <<"N">>, "ns"),
     Arg(Value("value", "Opt"), <<>>, ""),
     Arg(Value("value", "lower"), <<>>, ""),
     Arg(Value("value", "Flat"), <<>>, ""),
     Arg(Value("value", "string"), <<>>, ""),
     Arg(Value("value", "anonA"), <<>>, ""),
     Arg(Value("value", "anonA"), Anonymous \o <<"1">>, "") >>

UnionInputs ==
  << Arg(Values("array2Opt", <<1, 3>>), <<>>, ""),
     Arg(Values("sliceOpt", <<3, 1, 3>>), <<"U">>, "ns"),
     Arg(Values("sliceOpt", <<>>), <<>>, ""),
     Arg(Values("Opt", <<>>), <<>>, ""),
     Arg(Values("sliceData", <<"map[]">>), <<>>, ""),
     Arg(Values("sliceSome", <<>>), <<>>, ""),
     Arg(Values("sliceSome", <<"{}">>), <<>>, ""),
     Arg(Values("sliceMode", << <<"u","p">>, <<"d","n">> >>), <<>>, "ns"),
     Arg(Values("sliceBool", <<TRUE, FALSE>>), <<"B">>, ""),
     Arg(Values("sliceString", << <<"x">> >>), <<>>, "") >>

Next ==
  \/ \E i \in DOMAIN AddInputs :
       AddWithNameToNamespace(AddInputs[i].v, AddInputs[i].name, AddInputs[i].namespace)
  \/ \E i \in DOMAIN UnionInputs :
       AddUnionWithNameToNamespace(UnionInputs[i].v, UnionInputs[i].name,
                                   UnionInputs[i].namespace)
  \/ \E failAt \in FailAt : Render(failAt)

Spec == Init /\ [][Next]_vars

(***************************************************************************)
(* What the formulas below speak of.                                       *)
(***************************************************************************)
\* the step is a call of AddWithNameToNamespace that returned nil
AddReturned == last'.op = "Add" /\ calls' = calls + 1 /\ last'.result = "nil"
\* the step is a call of AddUnionWithNameToNamespace
UnionCalled == last'.op = "AddUnion" /\ calls' = calls + 1

\* the registered Go types that denote the type identity t: t itself and the
\* pointers to it
KeysFor(typeDecls, t) == {k \in DOMAIN typeDecls : removeIndirection(k) = t}

\* the positions of the ordered list that hold a declaration for t
PositionsFor(typeDecls, order, t) ==
  {i \in DOMAIN order : \E k \in KeysFor(typeDecls, t) : typeDecls[k] = order[i]}

IsInterface(p) == declarations[p].decl = "interface"
IsAlias(p) == declarations[p].decl = "alias"

(***************************************************************************)
(* C1 - idempotent registration.  After a call of Add* that denotes the    *)
(* type identity T (as a value, a pointer to a value, a reflect.Type or a  *)
(* reflect.Value) and returns, the registry holds exactly one declaration  *)
(* for T; its name is the explicit name of the call when T had no          *)
(* declaration before, and the name it had before otherwise.               *)
(***************************************************************************)
C1_IdempotentRegistration ==
  [][AddReturned =>
       LET T == removeIndirection(ReflectTypeOf(last'.v))
           before == PositionsFor(typeDeclarations, typeDeclarationsInOrder, T)
           after == PositionsFor(typeDeclarations', typeDeclarationsInOrder', T)
       IN /\ Cardinality(after) = 1
          /\ \A i \in after :
               LET name == declarations'[typeDeclarationsInOrder'[i]].Identifier
               IN IF before = {}
                  THEN last'.name # <<>> => name = last'.name
                  ELSE \A j \in before :
                         name = declarations[typeDeclarationsInOrder[j]].Identifier]_vars

(***************************************************************************)
(* C2 - order preservation.  A Render that returns writes every            *)
(* declaration once, every interface before every type alias, and within   *)
(* each of the two groups in the order in which the declarations were      *)
(* inserted (a declaration inserted later has the greater pointer).        *)
(***************************************************************************)
DeclarationWrites == SelectSeq(written, LAMBDA w : w.from # 0)

C2_OrderPreservation ==
  (last.op = "Render" /\ last.result = "nil") =>
    /\ \A p \in DOMAIN declarations :
         Cardinality({i \in DOMAIN DeclarationWrites : DeclarationWrites[i].from = p}) = 1
    /\ \A i, j \in DOMAIN DeclarationWrites :
         i < j =>
           LET p == DeclarationWrites[i].from
               q == DeclarationWrites[j].from
           IN /\ ~(IsAlias(p) /\ IsInterface(q))
              /\ (IsInterface(p) <=> IsInterface(q)) => p < q

\* a Render of a registry in which two aliases were inserted before two interfaces
C2_Witness ==
  /\ last.op = "Render" /\ last.result = "nil"
  /\ \E p, q, r, t \in DOMAIN declarations :
       /\ p < q /\ q < r /\ r < t
       /\ IsAlias(p) /\ IsAlias(q) /\ IsInterface(r) /\ IsInterface(t)
  /\ Len(DeclarationWrites) = Len(declarations)

(***************************************************************************)
(* C3 - union retrofit.  When a named scalar type S is declared as the     *)
(* type alias a record field gave it (named after S, and referred to by a  *)
(* property of an interface), a call of AddUnion or AddUnionToNamespace    *)
(* with a slice or array of S returns nil, leaves the number and the order *)
(* of the declarations and every other declaration as they were, and makes *)
(* the declaration of S the type alias of the union of the literals of the *)
(* given values, in their order; the property still refers to its name.    *)
(***************************************************************************)
\* the properties of the interfaces among decls that refer to the name
ReferrersTo(decls, name) ==
  {<<p, i>> \in (DOMAIN decls) \X (1..8) :
     /\ decls[p].decl = "interface"
     /\ i \in DOMAIN decls[p].Properties
     /\ decls[p].Properties[i].Type = [tag |-> "ref", to |-> name]}

\* the literal of one value of a slice or array of type t
ExpectedLiteral(t, value) ==
  CASE Kind(Elem(t)) = "bool" ->
         LiteralType(Boolean, IF value THEN <<"t","r","u","e">> ELSE <<"f","a","l","s","e">>)
    [] Kind(Elem(t)) = "string" -> LiteralType(String, value)
    [] OTHER -> LiteralType(Number, FormatInt(value))

ExpectedUnion(v) ==
  UnionType([i \in DOMAIN v.Elems |-> ExpectedLiteral(v.Type, v.Elems[i])])

FieldAliasOf(S) ==
  /\ S \in DOMAIN typeDeclarations
  /\ declarations[typeDeclarations[S]].decl = "alias"
  /\ declarations[typeDeclarations[S]].Identifier = Name(S)
  /\ ReferrersTo(declarations, Name(S)) # {}

C3_UnionRetrofit ==
  [][(/\ UnionCalled
      /\ Kind(last'.v.Type) \in {"slice", "array"}
      /\ Kind(Elem(last'.v.Type)) \in {"int", "string", "bool"}
      /\ last'.name = <<>>
      /\ FieldAliasOf(Elem(last'.v.Type)))
     =>
       LET S == Elem(last'.v.Type)
           p == typeDeclarations[S]
       IN /\ last'.result = "nil"
          /\ typeDeclarations' = typeDeclarations
          /\ typeDeclarationsInOrder' = typeDeclarationsInOrder
          /\ Cardinality(PositionsFor(typeDeclarations', typeDeclarationsInOrder', S)) = 1
          /\ DOMAIN declarations' = DOMAIN declarations
          /\ \A q \in DOMAIN declarations : q # p => declarations'[q] = declarations[q]
          /\ declarations'[p].decl = "alias"
          /\ declarations'[p].Type = ExpectedUnion(last'.v)
          /\ ReferrersTo(declarations', declarations'[p].Identifier)
               = ReferrersTo(declarations, Name(S))]_vars

\* Holder{C Opt} was added, then AddUnion([2]Opt{1, 3})
C3_Witness ==
  /\ last.op = "AddUnion" /\ last.result = "nil" /\ last.name = <<>>
  /\ last.v.Type = "array2Opt"
  /\ "Holder" \in DOMAIN typeDeclarations
  /\ "Opt" \in DOMAIN typeDeclarations
  /\ typeDeclarations["Opt"] < typeDeclarations["Holder"]
  /\ declarations[typeDeclarations["Opt"]].Type.tag = "union"
  /\ Len(declarations[typeDeclarations["Opt"]].Type.Types) = 2
  /\ ReferrersTo(declarations, <<"O","p","t">>) # {}

(***************************************************************************)
(* C9 - the error paths of AddUnion*.  A call with a value that is not a   *)
(* slice or an array, with an element whose kind is not boolean, numeric   *)
(* or string, or with elements of a type that is declared as an interface, *)
(* returns an error; a call never panics; and a call that does not return  *)
(* nil leaves the registry and the anonymous counter as they were.         *)
(***************************************************************************)
UnionNotSequence(v) == Kind(v.Type) \notin {"slice", "array"}
UnionBadKind(v) ==
  /\ ~UnionNotSequence(v)
  /\ v.Elems # <<>>
  /\ Kind(Elem(v.Type)) \notin (numberKinds \cup {"bool", "string"})
UnionConflict(v) ==
  /\ ~UnionNotSequence(v)
  /\ Elem(v.Type) \in DOMAIN typeDeclarations
  /\ declarations[typeDeclarations[Elem(v.Type)]].decl = "interface"

C9_WitnessNotSequence ==
  last.op = "AddUnion" /\ last.result = "error" /\ last.why = "notslice"
    /\ declarations # <<>>
C9_WitnessKind ==
  last.op = "AddUnion" /\ last.result = "error" /\ last.why = "kind"
    /\ declarations # <<>>

(***************************************************************************)
(* C10 - empty union input.  A call of AddUnion* with an empty slice or a  *)
(* zero-length array returns an error and leaves the registry as it was.   *)
(***************************************************************************)
C10_EmptyUnionRejected ==
  [][(UnionCalled /\ ~UnionNotSequence(last'.v) /\ last'.v.Elems = <<>>)
       => (last'.result = "error" /\ UNCHANGED registry)]_vars

(***************************************************************************)
(* SpecTranslate: the translation under registrations of records with      *)
(* pointers, collections, embedded records, colliding names, kinds with no *)
(* JSON form and cyclic type graphs.                                       *)
(***************************************************************************)
TranslateInputs ==
  << "Nullables", "Foo", "Bar", "Some", "Other", "lower",
     "Mid", "Outer", "Flat", "Shy",
     "Clash2", "ClashOuter", "ClashTag",
     "HasComplex", "HasChan", "HasFunc", "HasUnsafe", "HasUintptr",
     "HasDeepComplex", "HasBoolKey", "complex128",
     "Node", "Tree", "Graph", "ChainA" >>

TranslateUnionInputs ==
  << Arg(Values("sliceMode", << <<"u","p">>, <<"d","n">> >>), <<>>, ""),
     Arg(Values("array2Opt", <<1, 3>>), <<>>, "") >>

NextTranslate ==
  \/ \E i \in DOMAIN TranslateInputs :
       AddWithNameToNamespace(Value("value", TranslateInputs[i]), <<>>, "")
  \/ \E i \in DOMAIN TranslateUnionInputs :
       AddUnionWithNameToNamespace(TranslateUnionInputs[i].v, TranslateUnionInputs[i].name,
                                   TranslateUnionInputs[i].namespace)
  \/ \E failAt \in FailAt : Render(failAt)

SpecTranslate == Init /\ [][NextTranslate]_vars

(***************************************************************************)
(* C4 - termination on cyclic type graphs.  A call of Add* with a record   *)
(* whose type graph leads back to the record (through a pointer, a slice,  *)
(* a map value or another record) returns, and the record is declared.     *)
(***************************************************************************)
CyclicRecords == {"Node", "Tree", "Graph", "ChainA"}

C4_CyclicTerminates ==
  (last.op = "Add" /\ removeIndirection(ReflectTypeOf(last.v)) \in CyclicRecords) =>
    /\ last.result = "nil"
    /\ removeIndirection(ReflectTypeOf(last.v)) \in DOMAIN typeDeclarations

(***************************************************************************)
(* C5 - the nullability law.  The TypeScript type e of a Go type t obeys   *)
(* the law when a pointer (of any depth) is the union of exactly the type  *)
(* of what it points to and null, a slice is the union of exactly an array *)
(* and null, an array is an array and no union, and this holds again for   *)
(* the items of collections and the values of maps; under ignoreNil the    *)
(* pointer is the type of what it points to and the slice is the array,    *)
(* and e holds no union at all.  A type that has a declaration is used by  *)
(* reference to it.  The law holds for every translation in every          *)
(* reachable registry, for the body of every type alias the translation    *)
(* declares, and for the properties of the declared interfaces.            *)
(***************************************************************************)
IsUnionWithNull(e) ==
  /\ e.tag = "union"
  /\ Len(e.Types) = 2
  /\ e.Types[2] = Null
  /\ e.Types[1] # Null

\* a type that is used by reference: a declared type, a record, and a named
\* type unless e is the body of its own declaration
UsedByReference(typeDecls, t, body) ==
  \/ t \in DOMAIN typeDecls
  \/ Kind(t) = "struct" /\ ~isTime(t)
  \/ ~body /\ Name(t) # <<>> /\ (~isPrimitive(Kind(t)) \/ isPrimitiveAlias(t)) /\ ~isTime(t)

RECURSIVE NullabilityLaw(_, _, _, _, _)
NullabilityLaw(typeDecls, t, e, ignoreNil, body) ==
  CASE Kind(t) = "ptr" ->
         IF ignoreNil THEN NullabilityLaw(typeDecls, removeIndirection(t), e, ignoreNil, body)
         ELSE /\ IsUnionWithNull(e)
              /\ NullabilityLaw(typeDecls, removeIndirection(t), e.Types[1], ignoreNil, body)
    [] Kind(t) # "ptr" /\ UsedByReference(typeDecls, t, body) -> e.tag = "ref"
    [] Kind(t) = "slice" /\ ~UsedByReference(typeDecls, t, body) ->
         IF ignoreNil
         THEN e.tag = "array" /\ NullabilityLaw(typeDecls, Elem(t), e.ItemsType, ignoreNil, FALSE)
         ELSE /\ IsUnionWithNull(e)
              /\ e.Types[1].tag = "array"
              /\ NullabilityLaw(typeDecls, Elem(t), e.Types[1].ItemsType, ignoreNil, FALSE)
    [] Kind(t) = "array" /\ ~UsedByReference(typeDecls, t, body) ->
         e.tag = "array" /\ NullabilityLaw(typeDecls, Elem(t), e.ItemsType, ignoreNil, FALSE)
    [] Kind(t) = "map" /\ ~UsedByReference(typeDecls, t, body) ->
         e.tag = "map" /\ NullabilityLaw(typeDecls, Elem(t), e.ValueType, ignoreNil, FALSE)
    [] OTHER -> e.tag \in {"basic", "nil"} /\ e # Null

RECURSIVE HasUnion(_)
HasUnion(e) ==
  CASE e.tag = "union" -> TRUE
    [] e.tag = "array" -> HasUnion(e.ItemsType)
    [] e.tag = "map" -> HasUnion(e.ValueType)
    [] OTHER -> FALSE

\* the pointers, collections and maps of the model, and their named forms
NullabilityTypes ==
  {"ptrString", "ptrPtrString", "ptrSlice", "ptrArray", "ptrSome", "ptrData",
   "sliceString", "sliceSlice", "sliceSome", "array3String", "arraySlice",
   "mapSlice", "mapPtr", "Foo", "Bar"}

\* the law for one translation from the current registry
TranslationObeysLaw(t, wasExplicitlyAdded, ignoreNil) ==
  LET r == reflectTypeToTypeScriptType(G, t, "", wasExplicitlyAdded, ignoreNil, 1)
      new == DOMAIN r.g.typeDeclarations \ DOMAIN typeDeclarations
  IN r.st = "ok" =>
       /\ NullabilityLaw(typeDeclarations, t, r.ts, ignoreNil, wasExplicitlyAdded)
       /\ ignoreNil => ~HasUnion(r.ts)
       /\ \A k \in new :
            LET d == r.g.declarations[r.g.typeDeclarations[k]]
            IN d.decl = "alias" =>
                 /\ NullabilityLaw(typeDeclarations, k, d.Type, ignoreNil, TRUE)
                 /\ ignoreNil => ~HasUnion(d.Type)

\* a record whose properties are its fields, one for one
PlainRecord(t) ==
  /\ Kind(t) = "struct"
  /\ \A i \in 1..NumField(t) :
       /\ IsExported(StructField(t, i).Name)
       /\ ~StructField(t, i).Anonymous
       /\ PropertyName(StructField(t, i)) # <<"-">>

\* the types that had a declaration when the properties of t were translated
DeclaredBefore(t) ==
  {k \in DOMAIN typeDeclarations : typeDeclarations[k] < typeDeclarations[t]}

C5_NullabilityLaw ==
  /\ \A t \in NullabilityTypes : \A explicit, ignoreNil \in BOOLEAN :
       TranslationObeysLaw(t, explicit, ignoreNil)
  /\ \A t \in DOMAIN typeDeclarations :
       (PlainRecord(t) /\ declarations[typeDeclarations[t]].decl = "interface") =>
         LET properties == declarations[typeDeclarations[t]].Properties
         IN /\ Len(properties) = NumField(t)
            /\ \A i \in DOMAIN properties :
                 LET ignoreNil == StructField(t, i).go2ts = "ignorenil"
                 IN /\ NullabilityLaw([k \in DeclaredBefore(t) |-> 0], StructField(t, i).Type,
                                      properties[i].Type, ignoreNil, FALSE)
                    /\ ignoreNil => ~HasUnion(properties[i].Type)

\* Nullables was added: its properties show a pointer to a pointer, a slice of
\* slices, an array of slices, a map of slices, and the same under ignoreNil
C5_Witness ==
  /\ "Nullables" \in DOMAIN typeDeclarations
  /\ LET properties == declarations[typeDeclarations["Nullables"]].Properties
     IN /\ properties[1].Type = UnionType(<<String, Null>>)
        /\ properties[2].Type =
             UnionType(<<ArrayType(UnionType(<<ArrayType(String), Null>>)), Null>>)
        /\ properties[3].Type = ArrayType(UnionType(<<ArrayType(String), Null>>))
        /\ properties[4].Type =
             MapType(String, UnionType(<<ArrayType(String), Null>>))
        /\ properties[8].Type = ArrayType(String)
        /\ properties[9].Type = MapType(String, ArrayType(String))
  /\ declarations[typeDeclarations["Bar"]].Type = ArrayType(String)

(***************************************************************************)
(* C6 - the flattening law.  The properties of the interface of a record   *)
(* are, for its exported fields in order: for an embedded record (direct   *)
(* or through a pointer) the properties of that record in their order,     *)
(* and recursively so, with no property for the embedding itself; for any  *)
(* other field that is not tagged "-" one property, named by the json tag  *)
(* or the field.  A property is optional when an embedding on its path is  *)
(* a pointer, whatever its tag; otherwise exactly when its tag says        *)
(* omitempty.                                                              *)
(***************************************************************************)
FieldsOf(t) == Types[t].Fields

Omittable(field) ==
  \E i \in 1..Len(field.json) :
    /\ field.json[i] = ","
    /\ \A j \in 1..(i - 1) : field.json[j] # ","
    /\ SubSeq(field.json, i + 1, Len(field.json)) = Omitempty

RECURSIVE Flattened(_, _)
Flattened(fields, throughPointer) ==
  IF fields = <<>> THEN <<>>
  ELSE LET field == Head(fields)
           own ==
             IF ~IsExported(field.Name) THEN <<>>
             ELSE IF field.Anonymous /\ Kind(removeIndirection(field.Type)) = "struct"
             THEN Flattened(FieldsOf(removeIndirection(field.Type)),
                            throughPointer \/ Kind(field.Type) = "ptr")
             ELSE IF PropertyName(field) = <<"-">> THEN <<>>
             ELSE <<[Identifier |-> PropertyName(field),
                     Optional |-> throughPointer \/ Omittable(field)]>>
       IN own \o Flattened(Tail(fields), throughPointer)

NamesAndOptionality(properties) ==
  [i \in DOMAIN properties |->
     [Identifier |-> properties[i].Identifier, Optional |-> properties[i].Optional]]

DeclaredRecords ==
  {t \in DOMAIN typeDeclarations :
     Kind(t) = "struct" /\ declarations[typeDeclarations[t]].decl = "interface"}

Collides(t) ==
  LET flat == Flattened(FieldsOf(t), FALSE)
  IN \E i, j \in DOMAIN flat : i # j /\ flat[i].Identifier = flat[j].Identifier

C7_CollisionIsFatal ==
  /\ \A p \in DOMAIN declarations :
       declarations[p].decl = "interface" =>
         \A i, j \in DOMAIN declarations[p].Properties :
           i # j => declarations[p].Properties[i].Identifier
                      # declarations[p].Properties[j].Identifier
  /\ \A t \in DOMAIN typeDeclarations : Kind(t) = "struct" => ~Collides(t)
  /\ LET t == removeIndirection(ReflectTypeOf(last.v))
     IN (last.op = "Add" /\ Kind(t) = "struct" /\ Collides(t)) =>
          (last.result = "panic" /\ t \notin DOMAIN typeDeclarations)

\* Clash2{H Holder; Inner; Inner2} was added: Add panicked on the second X, after
\* Holder and Opt were declared
C7_Witness ==
  /\ last.op = "Add" /\ last.result = "panic" /\ last.why = "collision"
  /\ last.v.Type = "Clash2"
  /\ "Holder" \in DOMAIN typeDeclarations
  /\ "Clash2" \notin DOMAIN typeDeclarations

(***************************************************************************)
(* C8 - no silent fallback for unsupported kinds.  No declaration holds an *)
(* absent type, and a call of Add* with a record that has a field of a     *)
(* complex, channel, function, unsafe pointer or uintptr kind panics.      *)
(***************************************************************************)
UnsupportedKinds == {"complex64", "complex128", "chan", "func", "unsafe.Pointer", "uintptr"}

HasUnsupportedField(t) ==
  /\ Kind(t) = "struct"
  /\ \E i \in 1..NumField(t) :
       /\ IsExported(StructField(t, i).Name)
       /\ Kind(StructField(t, i).Type) \in UnsupportedKinds

C8_NoSilentFallback ==
  /\ \A p \in DOMAIN declarations : ~DeclarationHasNilType(declarations[p])
  /\ (last.op = "Add" /\ HasUnsupportedField(ReflectTypeOf(last.v))) => last.result = "panic"

(***************************************************************************)
(* C11 - Render surfaces write failures.  After a call of Render: when it  *)
(* returned nil every write succeeded; and a write that failed is the last *)
(* write of the call, which returned the error.                            *)
(***************************************************************************)
C11_RenderSurfacesWriteFailures ==
  last.op = "Render" =>
    /\ last.result = "nil" => \A i \in DOMAIN written : written[i].ok
    /\ \A i \in DOMAIN written :
         ~written[i].ok => (i = Len(written) /\ last.result = "error")

(***************************************************************************)
(* C12 - Render is pure and repeatable.  A call of Render leaves the map,  *)
(* the ordered list, every declaration and the anonymous counter as they   *)
(* were, and the instance as able to take a registration as before; when   *)
(* the registry is empty it writes the header line and nothing else; and   *)
(* a Render that follows a Render, both with every write succeeding,       *)
(* writes the same text.                                                   *)
(***************************************************************************)
RenderCalled == last'.op = "Render" /\ calls' = calls

AllWritten(writes) == \A i \in DOMAIN writes : writes[i].ok

TextOf(writes) == [i \in DOMAIN writes |-> writes[i].text]

C12_RenderIsPure ==
  [][RenderCalled =>
       /\ typeDeclarations' = typeDeclarations
       /\ typeDeclarationsInOrder' = typeDeclarationsInOrder
       /\ declarations' = declarations
       /\ anonymousCount' = anonymousCount
       /\ Running'
       /\ (declarations = <<>> /\ AllWritten(written')) => TextOf(written') = <<HeaderLine>>
       /\ (last.op = "Render" /\ AllWritten(written) /\ AllWritten(written'))
            => TextOf(written') = TextOf(written)]_vars

\* a Render of a registry of an interface and an alias, with every write succeeding
C12_Witness ==
  /\ last.op = "Render" /\ last.result = "nil"
  /\ AllWritten(written)
  /\ \E p, q \in DOMAIN declarations : IsInterface(p) /\ IsAlias(q)
  /\ Len(written) = 1 + 2 * Len(declarations)
  /\ calls = MaxCalls

(***************************************************************************)
(* C13 - anonymous naming.  The interface that a call of Add* declares for *)
(* a record is named by the explicit name of the call when the record is   *)
(* the one passed and the name is not empty, else by the capitalized name  *)
(* of the record type when it has one, else AnonymousN.  The counter never *)
(* goes back and only a call of Add* moves it; a call that returns moves   *)
(* it by the number of anonymous records it declared without an explicit   *)
(* name, and these are named with the numbers after the old counter, each  *)
(* number once; and the name of such a record is the name of no other      *)
(* declaration of the instance.                                            *)
(***************************************************************************)
AddCalled == last'.op = "Add" /\ calls' = calls + 1

\* the records declared by the step
NewRecords ==
  {k \in DOMAIN typeDeclarations' \ DOMAIN typeDeclarations :
     Kind(k) = "struct" /\ declarations'[typeDeclarations'[k]].decl = "interface"}

ExplicitlyNamed(k) == k = removeIndirection(ReflectTypeOf(last'.v)) /\ last'.name # <<>>

\* the records declared by the step that got a synthetic name
NewAnonymous == {k \in NewRecords : Name(k) = <<>> /\ ~ExplicitlyNamed(k)}

SyntheticName(n) == Anonymous \o FormatInt(n)

C13_AnonymousNaming ==
  [][/\ anonymousCount' >= anonymousCount
     /\ ~AddCalled => anonymousCount' = anonymousCount
     /\ AddCalled =>
          /\ \A k \in NewRecords :
               LET name == declarations'[typeDeclarations'[k]].Identifier
               IN IF ExplicitlyNamed(k) THEN name = last'.name
                  ELSE IF Name(k) # <<>> THEN name = Title(Name(k))
                  ELSE \E n \in (anonymousCount + 1)..anonymousCount' :
                         name = SyntheticName(n)
          /\ last'.result = "nil" =>
               /\ anonymousCount' - anonymousCount = Cardinality(NewAnonymous)
               /\ \A n \in (anonymousCount + 1)..anonymousCount' :
                    Cardinality({k \in NewAnonymous :
                       declarations'[typeDeclarations'[k]].Identifier = SyntheticName(n)}) = 1
          /\ \A k \in NewAnonymous : \A q \in DOMAIN declarations' :
               q # typeDeclarations'[k] =>
                 declarations'[q].Identifier
                   # declarations'[typeDeclarations'[k]].Identifier]_vars

(***************************************************************************)
(* SpecFields: the registry under registrations of records whose fields    *)
(* carry the go2ts:"ignorenil" tag or are maps, and of the types these     *)
(* fields lead to.                                                         *)
(***************************************************************************)
FieldInputs ==
  << "Quiet", "Leaf", "Foo", "Some", "Nullables", "Keyed", "HasBoolKey",
     "mapOptKey", "mapBoolKey", "Opt" >>

NextFields ==
  \/ \E i \in DOMAIN FieldInputs :
       AddWithNameToNamespace(Value("value", FieldInputs[i]), <<>>, "")
  \/ \E failAt \in FailAt : Render(failAt)

SpecFields == Init /\ [][NextFields]_vars

(***************************************************************************)
(* C14 - suppressed nullability propagates.  When a call of Add* declares  *)
(* a record with a field tagged go2ts:"ignorenil", every type that gets    *)
(* its declaration in the call and is reached through the type of that     *)
(* field and of no field before it (an alias of a slice, pointer or map, a *)
(* record, the types of the fields of that record, at any depth) is        *)
(* declared with no null in it.                                            *)
(***************************************************************************)
\* the types a type leads to: itself, what it points to or holds, and the types
\* of the fields of a record
RECURSIVE Reach(_, _)
Reach(frontier, seen) ==
  IF frontier \subseteq seen THEN seen
  ELSE LET t == CHOOSE x \in frontier \ seen : TRUE
           next == IF Kind(t) = "struct"
                   THEN {StructField(t, i).Type : i \in 1..NumField(t)}
                   ELSE {Elem(t)} \ {""}
       IN Reach((frontier \cup next) \ {t}, seen \cup {t})

RECURSIVE HasNull(_)
HasNull(e) ==
  CASE e = Null -> TRUE
    [] e.tag = "array" -> HasNull(e.ItemsType)
    [] e.tag = "map" -> HasNull(e.ValueType)
    [] e.tag = "union" -> \E i \in DOMAIN e.Types : HasNull(e.Types[i])
    [] OTHER -> FALSE

DeclarationHasNull(declaration) ==
  IF declaration.decl = "interface"
  THEN \E i \in DOMAIN declaration.Properties : HasNull(declaration.Properties[i].Type)
  ELSE HasNull(declaration.Type)

\* the types declared by the step that field i of the record T is the first to reach
FirstDeclaredThrough(T, i) ==
  {k \in DOMAIN typeDeclarations' \ DOMAIN typeDeclarations :
     /\ k \in Reach({StructField(T, i).Type}, {})
     /\ \A j \in 1..(i - 1) : k \notin Reach({StructField(T, j).Type}, {})}

C14_IgnoreNilPropagates ==
  [][(AddCalled /\ last'.result = "nil" /\ Kind(ReflectTypeOf(last'.v)) = "struct") =>
       LET T == ReflectTypeOf(last'.v)
       IN \A i \in 1..NumField(T) :
            StructField(T, i).go2ts = "ignorenil" =>
              \A k \in FirstDeclaredThrough(T, i) :
                ~DeclarationHasNull(declarations'[typeDeclarations'[k]])]_vars

(***************************************************************************)
(* C15 - map key reduction.  The translation of a map has the index type   *)
(* string when the kind of the key is string and number when it is a       *)
(* number kind, for a key of a named type too; the index type is never a   *)
(* reference and the translation declares nothing for the key type; a key  *)
(* of another kind panics; and the value type is the translation of the    *)
(* element type.  This holds for every translation of a map in every       *)
(* reachable registry and for the map properties of the declared records.  *)
(***************************************************************************)
MapTypes == {"mapSlice", "mapPtr", "mapOptKey", "mapModeKey", "mapBoolKey", "Data"}

ExpectedIndexType(t) ==
  CASE Kind(Key(t)) = "string" -> String
    [] Kind(Key(t)) \in numberKinds -> Number
    [] OTHER -> NilType

\* the law for one translation of the map t from the current registry
MapObeysReduction(t, wasExplicitlyAdded, ignoreNil) ==
  LET r == reflectTypeToTypeScriptType(G, t, "", wasExplicitlyAdded, ignoreNil, 1)
      value == reflectTypeToTypeScriptType(G, Elem(t), "", FALSE, ignoreNil, 2)
      body == IF t \in DOMAIN r.g.typeDeclarations THEN Lookup(r.g, t).Type ELSE r.ts
  IN IF ExpectedIndexType(t) = NilType
     THEN r.st = "panic" /\ r.why = "index" /\ r.g = G
     ELSE /\ Key(t) \notin DOMAIN r.g.typeDeclarations \ DOMAIN typeDeclarations
          /\ t \notin DOMAIN typeDeclarations =>
               /\ r.st = value.st
               /\ DOMAIN r.g.typeDeclarations \ {t} = DOMAIN value.g.typeDeclarations
          /\ r.st = "ok" =>
               /\ body.tag = "map"
               /\ body.IndexType = ExpectedIndexType(t)
               /\ t \notin DOMAIN typeDeclarations => body.ValueType = value.ts

C15_MapKeyReduction ==
  /\ \A t \in MapTypes : \A explicit, ignoreNil \in BOOLEAN :
       MapObeysReduction(t, explicit, ignoreNil)
  /\ \A t \in DOMAIN typeDeclarations :
       (PlainRecord(t) /\ declarations[typeDeclarations[t]].decl = "interface") =>
         \A i \in DOMAIN declarations[typeDeclarations[t]].Properties :
           LET e == declarations[typeDeclarations[t]].Properties[i].Type
               type == StructField(t, i).Type
           IN Kind(type) = "map" =>
                /\ e.tag \in {"map", "ref"}
                /\ e.tag = "map" => e.IndexType = ExpectedIndexType(type)
                /\ e.tag = "ref" => type \in DOMAIN typeDeclarations

\* Keyed{O map[Opt]string; M map[Mode]string; ...} was added: the index types are
\* number and string, and neither Opt nor Mode has a declaration
C15_Witness ==
  /\ "Keyed" \in DOMAIN typeDeclarations
  /\ LET properties == declarations[typeDeclarations["Keyed"]].Properties
     IN /\ properties[1].Type = MapType(Number, String)
        /\ properties[2].Type = MapType(String, String)
        /\ properties[3].Type = MapType(String, UnionType(<<ArrayType(String), Null>>))
  /\ "Opt" \notin DOMAIN typeDeclarations
  /\ "Mode" \notin DOMAIN typeDeclarations
  /\ last.op = "Add" /\ last.v.Type = "HasBoolKey" /\ last.result = "panic"

(***************************************************************************)
(* SpecBatch: the registry under the batch forms of Add and AddUnion.      *)
(***************************************************************************)
Batch(namespace, values) == [namespace |-> namespace, values |-> values]

AddBatches ==
  << Batch("", <<Value("value", "Some"), Value("value", "Holder")>>),
     Batch("", <<Value("value", "Holder"), Value("Type", "Opt"), Value("value", "ptrSome")>>),
     Batch("ns", <<Value("value", "lower"), Value("value", "anonB"), Value("value", "anonA")>>),
     Batch("", <<Value("value", "Clash2"), Value("value", "Some")>>),
     Batch("", <<Value("value", "Some"), Value("value", "HasComplex"),
                 Value("value", "Other")>>),
     Batch("", <<Value("Value", "Data"), Value("value", "Node"), Value("value", "Some")>>),
     Batch("", <<Value("value", "anonA")>>),
     Batch("", <<>>) >>

UnionBatches ==
  << Batch("", <<Values("array2Opt", <<1, 3>>),
                 Values("sliceMode", << <<"u","p">>, <<"d","n">> >>)>>),
     Batch("ns", <<Values("sliceOpt", <<3, 1, 3>>), Values("Opt", <<>>),
                   Values("sliceBool", <<TRUE, FALSE>>)>>),
     Batch("", <<Values("sliceData", <<"map[]">>), Values("array2Opt", <<1, 3>>)>>),
     Batch("", <<Values("sliceBool", <<TRUE>>), Values("sliceSome", <<>>),
                 Values("sliceString", << <<"x">> >>)>>),
     Batch("", <<Values("sliceString", << <<"x">>, <<"y">> >>)>>),
     Batch("", <<>>) >>

NextBatch ==
  \/ \E i \in DOMAIN AddBatches :
       AddMultipleToNamespace(AddBatches[i].namespace, AddBatches[i].values)
  \/ \E i \in DOMAIN UnionBatches :
       AddMultipleUnionToNamespace(UnionBatches[i].namespace, UnionBatches[i].values)
  \/ \E failAt \in FailAt : Render(failAt)

SpecBatch == Init /\ [][NextBatch]_vars

(***************************************************************************)
(* C16 - the batch forms are ordered and fail fast.  A call of             *)
(* AddMultiple* or AddMultipleUnion* ends as the singular calls made one   *)
(* by one on its values in their order: when the singular call on value k  *)
(* is the first that fails, the batch ends with that failure and leaves    *)
(* the registry as the singular calls on the values 1..k leave it, the     *)
(* values after k untouched; when none fails it returns nil and leaves the *)
(* registry as the singular calls on all the values leave it.              *)
(***************************************************************************)
BatchCalled == last'.op \in {"AddMultiple", "AddMultipleUnion"} /\ calls' = calls + 1

\* the singular form on one value: AddToNamespace or AddUnionToNamespace
Singular(op, g, v, namespace) ==
  IF op = "AddMultiple"
  THEN addTypeDeclaration(g, ReflectTypeOf(v), <<>>, namespace)
  ELSE addUnion(g, v, <<>>, namespace)

\* how the singular call on value n ends when it is made after the singular calls
\* on the values before it
RECURSIVE OneByOne(_, _, _, _, _)
OneByOne(op, g, values, namespace, n) ==
  Singular(op, IF n = 1 THEN g ELSE OneByOne(op, g, values, namespace, n - 1).g,
           values[n], namespace)

\* the first value on which the singular call fails
FirstFailure(op, g, values, namespace) ==
  {k \in DOMAIN values :
     /\ OneByOne(op, g, values, namespace, k).st # "ok"
     /\ \A n \in 1..(k - 1) : OneByOne(op, g, values, namespace, n).st = "ok"}

GNext ==
  [typeDeclarations |-> typeDeclarations',
   typeDeclarationsInOrder |-> typeDeclarationsInOrder',
   declarations |-> declarations', anonymousCount |-> anonymousCount']

C16_BatchIsOrderedAndFailFast ==
  [][BatchCalled =>
       LET op == last'.op
           values == last'.v
           namespace == last'.namespace
           failed == FirstFailure(op, G, values, namespace)
       IN IF failed = {}
          THEN /\ last'.result = "nil"
               /\ GNext = IF values = <<>> THEN G
                          ELSE OneByOne(op, G, values, namespace, Len(values)).g
          ELSE \A k \in failed :
                 /\ last'.result = OneByOne(op, G, values, namespace, k).st
                 /\ last'.why = OneByOne(op, G, values, namespace, k).why
                 /\ GNext = OneByOne(op, G, values, namespace, k).g]_vars

\* AddMultipleUnionToNamespace("ns", []Opt{3, 1, 3}, Opt(0), []bool{true, false}):
\* the second value is no slice; Opt is declared and bool is not
C16_Witness ==
  /\ last.op = "AddMultipleUnion" /\ last.result = "error" /\ last.why = "notslice"
  /\ Len(last.v) = 3
  /\ "Opt" \in DOMAIN typeDeclarations
  /\ declarations[typeDeclarations["Opt"]].Namespace = "ns"
  /\ "bool" \notin DOMAIN typeDeclarations

(***************************************************************************)
(* C17 - the registry is consistent.  In every reachable state the map and *)
(* the ordered list hold the same declarations, which are all the          *)
(* declarations of the instance, and the list holds each of them once.     *)
(* Every step keeps the list as it was and at most appends to it, keeps    *)
(* every entry of the map, and keeps every declaration an interface or an  *)
(* alias as it was; a declaration changes only as an alias under a call of *)
(* AddUnion*.                                                              *)
(***************************************************************************)
RegistryConsistent ==
  /\ {typeDeclarations[k] : k \in DOMAIN typeDeclarations} = DOMAIN declarations
  /\ Range(typeDeclarationsInOrder) = DOMAIN declarations
  /\ \A i, j \in DOMAIN typeDeclarationsInOrder :
       i # j => typeDeclarationsInOrder[i] # typeDeclarationsInOrder[j]

RegistryGrows ==
  /\ Len(typeDeclarationsInOrder') >= Len(typeDeclarationsInOrder)
  /\ SubSeq(typeDeclarationsInOrder', 1, Len(typeDeclarationsInOrder))
       = typeDeclarationsInOrder
  /\ \A k \in DOMAIN typeDeclarations :
       k \in DOMAIN typeDeclarations' /\ typeDeclarations'[k] = typeDeclarations[k]
  /\ \A p \in DOMAIN declarations :
       /\ p \in DOMAIN declarations'
       /\ declarations'[p].decl = declarations[p].decl
       /\ declarations'[p] # declarations[p] => (UnionCalled /\ declarations[p].decl = "alias")

C17_RegistryConsistency == []RegistryConsistent /\ [][RegistryGrows]_vars

\* two calls of Add* left three interfaces and an alias
C17_Witness ==
  /\ calls = MaxCalls /\ last.op = "Add" /\ last.result = "nil"
  /\ Len(typeDeclarationsInOrder) >= 4
  /\ Cardinality({p \in DOMAIN declarations : IsInterface(p)}) >= 3
  /\ \E p \in DOMAIN declarations : IsAlias(p)

(***************************************************************************)
(* C18 - bare primitives are never shadowed.  In every reachable registry  *)
(* the translation of a field of type int, string or bool is number,       *)
(* string or boolean and declares nothing, and the properties that the     *)
(* declared records have for such fields are of these types and are no     *)
(* references.                                                             *)
(***************************************************************************)
BarePrimitives == {"int", "string", "bool"}

PrimitiveExpression(t) ==
  CASE t = "int" -> Number
    [] t = "string" -> String
    [] t = "bool" -> Boolean

C18_PrimitivesNotShadowed ==
  /\ \A t \in BarePrimitives : \A ignoreNil \in BOOLEAN :
       LET r == reflectTypeToTypeScriptType(G, t, "", FALSE, ignoreNil, 1)
       IN r.st = "ok" /\ r.ts = PrimitiveExpression(t) /\ r.g = G
  /\ \A t \in DOMAIN typeDeclarations :
       (PlainRecord(t) /\ declarations[typeDeclarations[t]].decl = "interface") =>
         \A i \in DOMAIN declarations[typeDeclarations[t]].Properties :
           StructField(t, i).Type \in BarePrimitives =>
             declarations[typeDeclarations[t]].Properties[i].Type
               = PrimitiveExpression(StructField(t, i).Type)
====
